---------------------------- MODULE Spec2Model ----------------------------
(***************************************************************************)
(* Model of the combat script compiler of granblue-auto-py                 *)
(* (src/src-tauri/backend/utils/parser.py, class Parser).                  *)
(*                                                                         *)
(* A Python str is a sequence of one-character strings, a list a sequence, *)
(* a dict keyed by integers a function, an optional value <<>> (None) or   *)
(* <<v>>.  parse_raids is stepped at its loop heads: the main loop, the    *)
(* loop of _parse_combact and the loop of _parse_turn.                     *)
(***************************************************************************)
EXTENDS Integers, Sequences, FiniteSets, TLC

(***************************************************************************)
(* Bounds of the explored inputs.                                          *)
(***************************************************************************)
MaxLines == 4

MaxSegs == 3

MaxFairLines == 2
MaxRawLines == 3
MaxFailLines == 3
MaxBlockLines == 4

(***************************************************************************)
(* str helpers: startswith, strip, lower, split, int.                      *)
(***************************************************************************)
StartsWith(s, p) == Len(s) >= Len(p) /\ SubSeq(s, 1, Len(p)) = p

Whitespace == {" ", "\t"}

RECURSIVE lstrip(_)
lstrip(s) ==
  IF s # <<>> /\ Head(s) \in Whitespace THEN lstrip(Tail(s)) ELSE s

RECURSIVE rstrip(_)
rstrip(s) ==
  IF s # <<>> /\ s[Len(s)] \in Whitespace
  THEN rstrip(SubSeq(s, 1, Len(s) - 1)) ELSE s

strip(s) == rstrip(lstrip(s))

Upper == <<"A","B","C","D","E","F","G","H","I","J","K","L","M",
           "N","O","P","Q","R","S","T","U","V","W","X","Y","Z">>
Lower == <<"a","b","c","d","e","f","g","h","i","j","k","l","m",
           "n","o","p","q","r","s","t","u","v","w","x","y","z">>

LowerChar(c) ==
  IF \E i \in 1..26 : Upper[i] = c
  THEN Lower[CHOOSE i \in 1..26 : Upper[i] = c]
  ELSE c

lower(s) == [i \in 1..Len(s) |-> LowerChar(s[i])]

Digits == <<"0","1","2","3","4","5","6","7","8","9">>

IsDigit(c) == \E i \in 1..10 : Digits[i] = c

DigitVal(c) == (CHOOSE i \in 1..10 : Digits[i] = c) - 1

\* s[-k] of Python, for 1 <= k <= Len(s)
FromEnd(s, k) == s[Len(s) + 1 - k]

\* s.split(sep) for a one-character separator
RECURSIVE split(_, _)
split(s, sep) ==
  IF \A i \in 1..Len(s) : s[i] # sep
  THEN <<s>>
  ELSE LET i == CHOOSE j \in 1..Len(s) :
                  s[j] = sep /\ \A k \in 1..(j - 1) : s[k] # sep
       IN  <<SubSeq(s, 1, i - 1)>> \o split(SubSeq(s, i + 1, Len(s)), sep)

\* int(s) for a str s: optional surrounding whitespace, an optional sign,
\* decimal digits with single underscores between them; anything else
\* raises ValueError.
RECURSIVE DigitsValue(_, _)
DigitsValue(s, acc) ==
  IF s = <<>> THEN acc
  ELSE IF Head(s) = "_" THEN DigitsValue(Tail(s), acc)
  ELSE DigitsValue(Tail(s), 10 * acc + DigitVal(Head(s)))

IsIntBody(s) ==
  /\ s # <<>>
  /\ IsDigit(s[1]) /\ IsDigit(s[Len(s)])
  /\ \A i \in 1..Len(s) : IsDigit(s[i]) \/ s[i] = "_"
  /\ \A i \in 1..(Len(s) - 1) : ~(s[i] = "_" /\ s[i + 1] = "_")

int(s) ==
  LET t    == strip(s)
      sign == t # <<>> /\ Head(t) \in {"+", "-"}
      body == IF sign THEN Tail(t) ELSE t
  IN  IF IsIntBody(body)
      THEN [err |-> "None",
            val |-> IF sign /\ Head(t) = "-"
                    THEN 0 - DigitsValue(body, 0) ELSE DigitsValue(body, 0)]
      ELSE [err |-> "ValueError", val |-> 0]

(***************************************************************************)
(* The keywords of the script language, as str.                            *)
(***************************************************************************)
kw_http == <<"h","t","t","p">>
kw_summon_colon == <<"s","u","m","m","o","n",":">>
kw_repeat_colon == <<"r","e","p","e","a","t",":">>
kw_turn == <<"t","u","r","n">>
kw_character == <<"c","h","a","r","a","c","t","e","r">>
kw_wait == <<"w","a","i","t">>
kw_summon == <<"s","u","m","m","o","n">>
kw_attack == <<"a","t","t","a","c","k">>
kw_enablefullauto == <<"e","n","a","b","l","e","f","u","l","l","a","u","t","o">>
kw_end == <<"e","n","d">>
kw_useskill == <<"u","s","e","s","k","i","l","l">>
kw_target == <<"t","a","r","g","e","t">>
kw_selectchar == <<"s","e","l","e","c","t","c","h","a","r">>
kw_changechar == <<"c","h","a","n","g","e","c","h","a","r">>
kw_usesummon == <<"u","s","e","s","u","m","m","o","n">>
kw_deselectchar == <<"d","e","s","e","l","e","c","t","c","h","a","r">>

(***************************************************************************)
(* pre_parse: strip and lower every line, drop the empty lines and the     *)
(* lines starting with "#" or "/".                                         *)
(***************************************************************************)
RECURSIVE pre_parse(_)
pre_parse(text) ==
  IF text = <<>> THEN <<>>
  ELSE LET line == lower(strip(Head(text)))
       IN  IF line = <<>> \/ StartsWith(line, <<"#">>) \/ StartsWith(line, <<"/">>)
           THEN pre_parse(Tail(text))
           ELSE <<lstrip(line)>> \o pre_parse(Tail(text))

(***************************************************************************)
(* The field extractors: each returns the remaining lines and the field,   *)
(* <<>> when the first line is not that field.                             *)
(***************************************************************************)
\* Any first line holding a colon taken as the summon field.
_parse_summon_AnyColon(txt) ==
  IF Len(txt) = 0 THEN [txt |-> txt, val |-> <<>>]
  ELSE IF Len(split(txt[1], ":")) < 2 THEN [txt |-> txt, val |-> <<>>]
  ELSE [txt |-> Tail(txt), val |-> <<split(txt[1], ":")[2]>>]

_parse_summon(txt) ==
  IF Len(txt) = 0 THEN [txt |-> txt, val |-> <<>>]
  ELSE IF ~StartsWith(txt[1], kw_summon_colon) THEN [txt |-> txt, val |-> <<>>]
  ELSE [txt |-> Tail(txt), val |-> <<split(txt[1], ":")[2]>>]

_parse_url(txt) ==
  IF Len(txt) = 0 THEN [txt |-> txt, val |-> <<>>]
  ELSE IF ~StartsWith(txt[1], kw_http) THEN [txt |-> txt, val |-> <<>>]
  ELSE [txt |-> Tail(txt), val |-> <<txt[1]>>]

\* The count read from the character after the colon.
_parse_repeat_First(txt) ==
  IF Len(txt) = 0 THEN [txt |-> txt, val |-> <<>>, err |-> "None"]
  ELSE IF ~StartsWith(txt[1], kw_repeat_colon)
       THEN [txt |-> txt, val |-> <<>>, err |-> "None"]
  ELSE LET n == int(<<txt[1][Len(kw_repeat_colon) + 1]>>)
       IN  IF n.err # "None"
           THEN [txt |-> txt, val |-> <<>>, err |-> n.err]
           ELSE [txt |-> Tail(txt), val |-> <<n.val>>, err |-> "None"]

_parse_repeat(txt) ==
  IF Len(txt) = 0 THEN [txt |-> txt, val |-> <<>>, err |-> "None"]
  ELSE IF ~StartsWith(txt[1], kw_repeat_colon)
       THEN [txt |-> txt, val |-> <<>>, err |-> "None"]
  ELSE LET n == int(<<FromEnd(txt[1], 1)>>)
       IN  IF n.err # "None"
           THEN [txt |-> txt, val |-> <<>>, err |-> n.err]
           ELSE [txt |-> Tail(txt), val |-> <<n.val>>, err |-> "None"]

(***************************************************************************)
(* Actions of the compiled script.  {key: {name: value}} is a "dict"       *)
(* action, (key, {}) a "tuple" action; the arguments are the items of the  *)
(* inner dict.                                                             *)
(***************************************************************************)
DictAction(key, args) == [kind |-> "dict", key |-> key, args |-> args]

TupleAction(key, args) == [kind |-> "tuple", key |-> key, args |-> args]

\* The index kept 1-based.
Idx_OneBased(n) == << <<"idx", n + 1>> >>

Idx(n) == << <<"idx", n>> >>

(***************************************************************************)
(* _parse_character: one character chain line.  The errors are the         *)
(* exceptions of the code: ValueError("Invalid chracter number") is        *)
(* InvalidCharacterIndex, ValueError("Invalid skill number")               *)
(* InvalidSkillIndex, ValueError("Invalid skill target number")            *)
(* InvalidTargetIndex, RuntimeError("Select a skill before picking a       *)
(* target") TargetWithoutSkillArmed, and a failing int() ValueError.       *)
(***************************************************************************)
\* v in (a, b, ...): the range test of an index.  Two slips of it: no test
\* at all, and a test that lets the index 0 through.
InTuple_Always(v, allowed) == TRUE

InTuple_FromZero(v, allowed) == v \in allowed \cup {0}

InTuple(v, allowed) == v \in allowed

RECURSIVE _parse_character_cmds(_, _, _)
_parse_character_cmds(chains, is_skill_selected, ret) ==
  IF chains = <<>> THEN [err |-> "None", ret |-> ret]
  ELSE
    LET cmd == Head(chains) IN
    IF StartsWith(cmd, kw_useskill) THEN
      LET skill_idx == int(<<FromEnd(cmd, 2)>>) IN
      IF skill_idx.err # "None" THEN [err |-> skill_idx.err, ret |-> <<>>]
      ELSE IF ~InTuple(skill_idx.val, {1, 2, 3, 4})
      THEN [err |-> "InvalidSkillIndex", ret |-> <<>>]
      ELSE _parse_character_cmds(Tail(chains), TRUE,
             ret \o <<DictAction(kw_useskill, Idx(skill_idx.val - 1))>>)
    ELSE IF StartsWith(cmd, kw_target) THEN
      LET target_idx == int(<<FromEnd(cmd, 2)>>) IN
      IF target_idx.err # "None" THEN [err |-> target_idx.err, ret |-> <<>>]
      ELSE IF ~InTuple(target_idx.val, {1, 2, 3, 4, 5, 6})
      THEN [err |-> "InvalidTargetIndex", ret |-> <<>>]
      ELSE IF ~is_skill_selected
      THEN [err |-> "TargetWithoutSkillArmed", ret |-> <<>>]
      ELSE _parse_character_cmds(Tail(chains), FALSE,
             ret \o <<DictAction(kw_target, Idx(target_idx.val - 1))>>)
    ELSE _parse_character_cmds(Tail(chains), is_skill_selected, ret)

\* The selection flag ignored: every chain selects.
SelectOrChange_AlwaysSelect(is_char_selected, char_idx) ==
  DictAction(kw_selectchar, Idx(char_idx - 1))

SelectOrChange(is_char_selected, char_idx) ==
  IF is_char_selected
  THEN DictAction(kw_changechar, Idx(char_idx - 1))
  ELSE DictAction(kw_selectchar, Idx(char_idx - 1))

_parse_character(line, is_char_selected) ==
  LET chains   == split(line, ".")
      char_idx == int(<<FromEnd(Head(chains), 1)>>)
  IN  IF char_idx.err # "None" THEN [err |-> char_idx.err, ret |-> <<>>]
      ELSE IF ~InTuple(char_idx.val, {1, 2, 3, 4})
      THEN [err |-> "InvalidCharacterIndex", ret |-> <<>>]
      ELSE _parse_character_cmds(Tail(chains), FALSE,
             <<SelectOrChange(is_char_selected, char_idx.val)>>)

(***************************************************************************)
(* The body of the loop of _parse_turn: one line of a turn block.          *)
(* Returns the actions the line adds, the new selection flag, whether the  *)
(* line ends the block, and the exception it raises if any.  The set       *)
(* display {"deselectchar", {}} holds a dict, which is unhashable:         *)
(* evaluating it raises TypeError.                                         *)
(***************************************************************************)
TurnStep(err, add, sel, brk) ==
  [err |-> err, add |-> add, is_char_selected |-> sel, brk |-> brk]

\* The attack branch with the selection kept.
Attack_KeepSelection(line, is_char_selected) ==
  TurnStep("None", <<TupleAction(line, <<>>)>>, is_char_selected, FALSE)

\* The attack branch with deselectchar emitted first for a selected
\* character.
Attack_Deselect(line, is_char_selected) ==
  TurnStep("None",
           (IF is_char_selected THEN <<DictAction(kw_deselectchar, <<>>)>>
            ELSE <<>>) \o <<TupleAction(line, <<>>)>>,
           FALSE, FALSE)

\* The attack branch: the selection is cleared and the action is the pair
\* (line, {}).
Attack(line, is_char_selected) ==
  TurnStep("None", <<TupleAction(line, <<>>)>>, FALSE, FALSE)

\* The wait branch with the time read from the one character before the
\* closing parenthesis.
Wait_OneDigit(line, is_char_selected) ==
  LET t == int(<<FromEnd(line, 2)>>) IN
  IF t.err # "None" THEN TurnStep(t.err, <<>>, is_char_selected, FALSE)
  ELSE TurnStep("None", <<DictAction(kw_wait, << <<"time", t.val>> >>)>>,
                is_char_selected, FALSE)

\* The wait branch: the time is int(line[5:-1]).
Wait(line, is_char_selected) ==
  LET t == int(SubSeq(line, 6, Len(line) - 1)) IN
  IF t.err # "None" THEN TurnStep(t.err, <<>>, is_char_selected, FALSE)
  ELSE TurnStep("None", <<DictAction(kw_wait, << <<"time", t.val>> >>)>>,
                is_char_selected, FALSE)

\* The last branch with the selection cleared, as the attack branch does.
Custom_Deselect(line, is_char_selected) ==
  TurnStep("None", <<DictAction(line, <<>>)>>, FALSE, FALSE)

\* The last branch with a url, repeat or turn line ending the block.
Custom_EndOnField(line, is_char_selected) ==
  IF \/ StartsWith(line, kw_http)
     \/ StartsWith(line, kw_repeat_colon)
     \/ StartsWith(line, kw_turn)
  THEN TurnStep("None", <<>>, is_char_selected, TRUE)
  ELSE TurnStep("None", <<DictAction(line, <<>>)>>, is_char_selected, FALSE)

\* The last branch: any other line is an action of its own, without
\* arguments.
Custom(line, is_char_selected) ==
  TurnStep("None", <<DictAction(line, <<>>)>>, is_char_selected, FALSE)

_parse_turn_line(line, is_char_selected) ==
  IF StartsWith(line, kw_character) THEN
    LET c == _parse_character(line, is_char_selected) IN
    IF c.err # "None" THEN TurnStep(c.err, <<>>, is_char_selected, FALSE)
    ELSE TurnStep("None", c.ret, TRUE, FALSE)
  ELSE IF StartsWith(line, kw_wait) THEN
    Wait(line, is_char_selected)
  ELSE IF StartsWith(line, kw_summon) THEN
    LET idx == int(<<FromEnd(line, 2)>>) IN
    IF idx.err # "None" THEN TurnStep(idx.err, <<>>, is_char_selected, FALSE)
    ELSE IF ~InTuple(idx.val, {1, 2, 3, 4, 5, 6})
    THEN TurnStep("InvalidSummonIndex", <<>>, is_char_selected, FALSE)
    ELSE IF is_char_selected
    THEN TurnStep("TypeError", <<>>, is_char_selected, FALSE)
    ELSE TurnStep("None", <<DictAction(kw_usesummon, Idx(idx.val - 1))>>,
                  is_char_selected, FALSE)
  ELSE IF line = kw_attack THEN
    Attack(line, is_char_selected)
  ELSE IF line = kw_enablefullauto THEN
    IF is_char_selected
    THEN TurnStep("TypeError", <<>>, is_char_selected, FALSE)
    ELSE TurnStep("None", <<DictAction(line, <<>>)>>, is_char_selected, FALSE)
  ELSE IF line = kw_end THEN
    TurnStep("None", <<>>, is_char_selected, TRUE)
  ELSE Custom(line, is_char_selected)

(***************************************************************************)
(* Python dicts.  A dict keyed by integers is a function; raid_info has    *)
(* the keys url, summon and repeat only, each absent (<<>>) or set (<<v>>).*)
(***************************************************************************)
EmptyDict == [k \in {} |-> <<>>]

DictSet(d, k, v) == [x \in (DOMAIN d) \cup {k} |-> IF x = k THEN v ELSE d[x]]

EmptyInfo == [url |-> <<>>, summon |-> <<>>, repeat |-> <<>>]

(***************************************************************************)
(* The state of one call of parse_raids(txt).                              *)
(*   pc: "start" (entry), "loop" (head of the main loop), "combact" (head  *)
(*   of the loop of _parse_combact), "turn" (head of the loop of           *)
(*   _parse_turn), "done" (returned list_of_raids), "error" (raised err).  *)
(*   combact_actions_c is the local combact_actions of _parse_combact.     *)
(***************************************************************************)
VARIABLES txt, pc, err, remain_txt, list_of_raids, raid_cnt, raid_info,
          combact_actions, lines_left, combact_actions_c, turn,
          is_char_selected, combact_act, first, raid_id, got

vars == <<txt, pc, err, remain_txt, list_of_raids, raid_cnt, raid_info,
          combact_actions, lines_left, combact_actions_c, turn,
          is_char_selected, combact_act, first, raid_id, got>>

\* The caller's side: the outcome of a first compilation kept while the
\* preprocessed script is compiled again (first), and the loop of
\* GenericV2.start over the returned raids (raid_id, the raid reached, and
\* got, what get_info returned for it).
caller_vars == <<first, raid_id, got>>

parse_raids_vars == <<list_of_raids, raid_cnt, raid_info, combact_actions,
                      lines_left>>

combact_vars == <<combact_actions_c, turn, is_char_selected, combact_act>>

(***************************************************************************)
(* Input scripts: raw lines as the user writes them.                       *)
(***************************************************************************)
L_url_a == <<"h","t","t","p",":","/","/","a">>
L_url_b == <<"h","t","t","p",":","/","/","b">>
L_summon == <<"s","u","m","m","o","n",":","K","a","g","u","y","a">>
L_surmmon == <<"s","u","R","m","m","o","n",":","K","a","g","u","y","a">>
L_repeat == <<"r","e","p","e","a","t",":","1">>
L_turn1 == <<"T","u","r","n"," ","1",":">>
L_turn2 == <<"t","u","r","n"," ","2",":">>
L_quicksummon == <<" "," "," ","q","u","i","c","k","S","u","m","m","o","n">>
L_end == <<"E","n","d">>
L_attack == <<"a","t","t","a","c","k">>
L_enablefullauto == <<"e","n","a","b","l","e","F","u","l","l","A","u","t","o">>
L_character1 == <<"c","h","a","r","a","c","t","e","r","1">>
L_character2 == <<"c","h","a","r","a","c","t","e","r","2",".","u","s","e","S","k","i","l","l","(","1",")">>
L_summon3 == <<"s","u","m","m","o","n","3">>
L_summon_p3 == <<"s","u","m","m","o","n","(","3",")">>

RaidLines == {L_url_a, L_url_b, L_summon, L_surmmon, L_repeat, L_turn1,
              L_quicksummon, L_end}

SeqsUpTo(S, n) == UNION {[1..k -> S] : k \in 0..n}

Scripts == SeqsUpTo(RaidLines, MaxLines)

\* One turn block header followed by turn-level lines.
TurnLines == {L_character1, L_character2, L_summon3, L_summon_p3, L_attack,
              L_enablefullauto, L_end, L_turn2, L_quicksummon}

TurnScripts == {<<L_turn1>> \o b : b \in SeqsUpTo(TurnLines, MaxLines)}

\* Character chains "character<n>.<cmd>(<d>)...", rendered from their
\* description: the character digit n and the segments [cmd, n].
CharDigits == {0, 1, 4, 5}

SkillDigits == {0, 1, 2, 4, 5}

TargetDigits == {0, 1, 3, 6, 7}

SummonDigits == {0, 1, 6, 7}

Segments == [cmd : {kw_useskill}, n : SkillDigits]
            \cup [cmd : {kw_target}, n : TargetDigits]

RECURSIVE RenderSegments(_)
RenderSegments(segs) ==
  IF segs = <<>> THEN <<>>
  ELSE <<".">> \o Head(segs).cmd \o <<"(", Digits[Head(segs).n + 1], ")">>
       \o RenderSegments(Tail(segs))

RenderChain(d) == kw_character \o <<Digits[d.n + 1]>> \o RenderSegments(d.segs)

ChainDescs == [n : CharDigits, segs : SeqsUpTo(Segments, MaxSegs)]

RenderSummon(n) == kw_summon \o <<"(", Digits[n + 1], ")">>

\* Chains with a segment that is neither useskill nor target.
L_chain_foo == kw_character \o <<"1", ".", "f", "o", "o", "(", "1", ")">>
               \o <<".">> \o kw_useskill \o <<"(", "2", ")">>
L_chain_bar == kw_character \o <<"2", ".">> \o kw_useskill \o <<"(", "1", ")">>
               \o <<".", "b", "a", "r">> \o <<".">> \o kw_target
               \o <<"(", "2", ")">>

\* A turn block of one line (a custom line or a chain using a skill) and a
\* chain, or of one summon line.
ChainScripts ==
  {<<L_turn1, p, RenderChain(d)>> :
     p \in {L_quicksummon, L_character2}, d \in ChainDescs}
  \cup {<<L_turn1, RenderSummon(n)>> : n \in SummonDigits}
  \cup {<<L_turn1, L_chain_foo>>, <<L_turn1, L_chain_bar, L_end>>}

\* Raw lines with comments, blank lines, surrounding blanks and capitals.
R_empty == <<>>
R_blank == <<" ", "\t">>
R_hash == <<" ", "#", " ", "C">>
R_slashes == <<"/", "/", " ", "c">>
R_slash == <<"/", "x">>
R_url == <<" ", "H", "T", "T", "P", ":", "/", "/", "A", " ">>

RawLines == {R_empty, R_blank, R_hash, R_slashes, R_slash, R_url, L_summon,
             L_turn1, L_quicksummon, L_end}

RawScripts == SeqsUpTo(RawLines, MaxRawLines)

\* Lines that fail validation, among lines that pass, after a first url.
L_repeat_x == <<"r","e","p","e","a","t",":","x">>
F_char5 == RenderChain([n |-> 5, segs |-> <<[cmd |-> kw_useskill, n |-> 1]>>])
F_skill5 == RenderChain([n |-> 1, segs |-> <<[cmd |-> kw_useskill, n |-> 5]>>])
F_target7 == RenderChain([n |-> 1, segs |-> <<[cmd |-> kw_useskill, n |-> 1],
                                              [cmd |-> kw_target, n |-> 7]>>])
F_unarmed == RenderChain([n |-> 1, segs |-> <<[cmd |-> kw_target, n |-> 1]>>])
F_summon7 == RenderSummon(7)

FailLines == {L_url_b, L_repeat, L_repeat_x, L_turn1, L_end, L_character2,
              L_quicksummon, F_char5, F_skill5, F_target7, F_unarmed,
              F_summon7}

FailScripts == {<<L_url_a>> \o b : b \in SeqsUpTo(FailLines, MaxFailLines)}

\* Turn blocks under several headers, with wait lines.
L_turn10 == <<"T","u","r","n"," ","1","0",":">>
L_wait5 == <<"w","a","i","t","(","5",")">>
L_wait12 == <<"W","a","i","t","(","1","2",")">>

BlockLines == {L_turn1, L_turn2, L_turn10, L_end, L_quicksummon,
               L_character1, L_wait5, L_wait12}

BlockScripts == SeqsUpTo(BlockLines, MaxBlockLines)

\* Raid fields with one-digit and two-digit repeat counts.
L_repeat12 == <<"r","e","p","e","a","t",":","1","2">>

RepeatLines == {L_url_a, L_summon, L_repeat, L_repeat12, L_turn1, L_end,
                L_quicksummon}

RepeatScripts == SeqsUpTo(RepeatLines, MaxLines)

InitWith(scripts) ==
  /\ txt \in scripts
  /\ pc = "start"
  /\ err = "None"
  /\ remain_txt = <<>>
  /\ list_of_raids = EmptyDict
  /\ raid_cnt = 0
  /\ raid_info = EmptyInfo
  /\ combact_actions = EmptyDict
  /\ lines_left = 0
  /\ combact_actions_c = EmptyDict
  /\ turn = 0
  /\ is_char_selected = FALSE
  /\ combact_act = <<>>
  /\ first = <<>>
  /\ raid_id = 0
  /\ got = <<>>

Init == InitWith(Scripts)

\* The exception caught and what was compiled so far returned.
Raise_Return(e) ==
  /\ pc' = "done"
  /\ err' = e
  /\ UNCHANGED <<caller_vars, txt, remain_txt, parse_raids_vars,
                 combact_vars>>

Raise(e) ==
  /\ pc' = "error"
  /\ err' = e
  /\ UNCHANGED <<caller_vars, txt, remain_txt, parse_raids_vars,
                 combact_vars>>

(***************************************************************************)
(* parse_raids, entry: the lines are preprocessed.                         *)
(***************************************************************************)
\* The lines taken as they come, without the preprocessor.
Start_Raw ==
  /\ pc = "start"
  /\ remain_txt' = txt
  /\ pc' = "loop"
  /\ UNCHANGED <<caller_vars, txt, err, parse_raids_vars, combact_vars>>

Start ==
  /\ pc = "start"
  /\ remain_txt' = pre_parse(txt)
  /\ pc' = "loop"
  /\ UNCHANGED <<caller_vars, txt, err, parse_raids_vars, combact_vars>>

(***************************************************************************)
(* One cycle of the main loop up to the call of _parse_combact: the url,   *)
(* summon and repeat extractors in this order.  A url found while the raid *)
(* in progress has a url concludes that raid first.                        *)
(***************************************************************************)
\* The raid stored before the counter is advanced.
ConcludeIf_StoreFirst(cond, raids, cnt, info, actions) ==
  IF cond
  THEN [list_of_raids |-> DictSet(raids, cnt,
                            [info |-> info, combact_actions |-> actions]),
        raid_cnt |-> cnt + 1, raid_info |-> EmptyInfo,
        combact_actions |-> EmptyDict]
  ELSE [list_of_raids |-> raids, raid_cnt |-> cnt, raid_info |-> info,
        combact_actions |-> actions]

\* The working info kept after the raid is stored.
ConcludeIf_KeepInfo(cond, raids, cnt, info, actions) ==
  IF cond
  THEN [list_of_raids |-> DictSet(raids, cnt + 1,
                            [info |-> info, combact_actions |-> actions]),
        raid_cnt |-> cnt + 1, raid_info |-> info,
        combact_actions |-> EmptyDict]
  ELSE [list_of_raids |-> raids, raid_cnt |-> cnt, raid_info |-> info,
        combact_actions |-> actions]

ConcludeIf(cond, raids, cnt, info, actions) ==
  IF cond
  THEN [list_of_raids |-> DictSet(raids, cnt + 1,
                            [info |-> info, combact_actions |-> actions]),
        raid_cnt |-> cnt + 1, raid_info |-> EmptyInfo,
        combact_actions |-> EmptyDict]
  ELSE [list_of_raids |-> raids, raid_cnt |-> cnt, raid_info |-> info,
        combact_actions |-> actions]

ParseFields ==
  /\ pc = "loop"
  /\ Len(remain_txt) > 0
  /\ LET u  == _parse_url(remain_txt)
         c  == ConcludeIf(u.val # <<>> /\ raid_info.url # <<>>,
                          list_of_raids, raid_cnt, raid_info, combact_actions)
         i1 == IF u.val # <<>> THEN [c.raid_info EXCEPT !.url = u.val]
               ELSE c.raid_info
         s  == _parse_summon(u.txt)
         i2 == IF s.val # <<>> THEN [i1 EXCEPT !.summon = s.val] ELSE i1
         r  == _parse_repeat(s.txt)
         i3 == IF r.val # <<>> THEN [i2 EXCEPT !.repeat = r.val] ELSE i2
     IN  IF r.err # "None" THEN Raise(r.err)
         ELSE /\ lines_left' = Len(remain_txt)
              /\ remain_txt' = r.txt
              /\ list_of_raids' = c.list_of_raids
              /\ raid_cnt' = c.raid_cnt
              /\ combact_actions' = c.combact_actions
              /\ raid_info' = i3
              /\ combact_actions_c' = EmptyDict
              /\ pc' = "combact"
              /\ UNCHANGED <<caller_vars, txt, err, turn, is_char_selected,
                             combact_act>>

(***************************************************************************)
(* _parse_combact: while the first remaining line starts with "turn", a    *)
(* turn block is parsed.  The header gives the turn number.                *)
(***************************************************************************)
TurnAhead(text) == Len(text) # 0 /\ StartsWith(text[1], kw_turn)

TurnHeader ==
  /\ pc = "combact"
  /\ TurnAhead(remain_txt)
  /\ LET n == int(<<FromEnd(remain_txt[1], 2)>>)
     IN  IF n.err # "None" THEN Raise(n.err)
         ELSE /\ turn' = n.val
              /\ remain_txt' = Tail(remain_txt)
              /\ is_char_selected' = FALSE
              /\ combact_act' = <<>>
              /\ pc' = "turn"
              /\ UNCHANGED <<caller_vars, txt, err, parse_raids_vars,
                             combact_actions_c>>

(***************************************************************************)
(* _parse_turn: one line of the block is popped and compiled; "end" or the *)
(* end of the input returns the block to _parse_combact, which stores it   *)
(* under its turn number.                                                  *)
(***************************************************************************)
\* The line after the block taken with it.
TurnReturn_DropNext(rest) ==
  /\ combact_actions_c' = DictSet(combact_actions_c, turn, combact_act)
  /\ remain_txt' = IF rest = <<>> THEN rest ELSE Tail(rest)
  /\ pc' = "combact"
  /\ UNCHANGED <<caller_vars, txt, err, parse_raids_vars, turn,
                 is_char_selected, combact_act>>

TurnReturn(rest) ==
  /\ combact_actions_c' = DictSet(combact_actions_c, turn, combact_act)
  /\ remain_txt' = rest
  /\ pc' = "combact"
  /\ UNCHANGED <<caller_vars, txt, err, parse_raids_vars, turn,
                 is_char_selected, combact_act>>

TurnLine ==
  /\ pc = "turn"
  /\ Len(remain_txt) > 0
  /\ LET r == _parse_turn_line(Head(remain_txt), is_char_selected)
     IN  IF r.err # "None" THEN Raise(r.err)
         ELSE IF r.brk THEN TurnReturn(Tail(remain_txt))
         ELSE /\ combact_act' = combact_act \o r.add
              /\ is_char_selected' = r.is_char_selected
              /\ remain_txt' = Tail(remain_txt)
              /\ UNCHANGED <<caller_vars, txt, pc, err, parse_raids_vars,
                             combact_actions_c, turn>>

TurnEndOfInput ==
  /\ pc = "turn"
  /\ Len(remain_txt) = 0
  /\ TurnReturn(remain_txt)

(***************************************************************************)
(* The end of a cycle of the main loop: the result of _parse_combact is    *)
(* assigned to combact_actions, and when the cycle consumed no line the    *)
(* first remaining line is deleted.                                        *)
(***************************************************************************)
\* The unparsable line left in place.
DropUnparsable_Keep(left, text) == text

DropUnparsable(left, text) == IF left = Len(text) THEN Tail(text) ELSE text

CombactReturn ==
  /\ pc = "combact"
  /\ ~TurnAhead(remain_txt)
  /\ combact_actions' = combact_actions_c
  /\ remain_txt' = DropUnparsable(lines_left, remain_txt)
  /\ pc' = "loop"
  /\ UNCHANGED <<caller_vars, txt, err, list_of_raids, raid_cnt, raid_info,
                 lines_left, combact_vars>>

(***************************************************************************)
(* After the loop the raid in progress is concluded and the script is      *)
(* returned.                                                               *)
(***************************************************************************)
\* The raid in progress stored only when it holds something.
Finalize_SkipEmpty ==
  /\ pc = "loop"
  /\ Len(remain_txt) = 0
  /\ LET c == ConcludeIf(raid_info # EmptyInfo \/ combact_actions # EmptyDict,
                         list_of_raids, raid_cnt, raid_info, combact_actions)
     IN  /\ list_of_raids' = c.list_of_raids
         /\ raid_cnt' = c.raid_cnt
  /\ pc' = "done"
  /\ UNCHANGED <<caller_vars, txt, err, remain_txt, raid_info,
                 combact_actions, lines_left, combact_vars>>

Finalize ==
  /\ pc = "loop"
  /\ Len(remain_txt) = 0
  /\ LET c == ConcludeIf(TRUE, list_of_raids, raid_cnt, raid_info,
                         combact_actions)
     IN  /\ list_of_raids' = c.list_of_raids
         /\ raid_cnt' = c.raid_cnt
  /\ pc' = "done"
  /\ UNCHANGED <<caller_vars, txt, err, remain_txt, raid_info,
                 combact_actions, lines_left, combact_vars>>

Next ==
  \/ Start
  \/ ParseFields
  \/ TurnHeader
  \/ TurnLine
  \/ TurnEndOfInput
  \/ CombactReturn
  \/ Finalize

Spec == Init /\ [][Next]_vars

SpecTurn == InitWith(TurnScripts) /\ [][Next]_vars

SpecChain == InitWith(ChainScripts) /\ [][Next]_vars

SpecFail == InitWith(FailScripts) /\ [][Next]_vars

SpecBlocks == InitWith(BlockScripts) /\ [][Next]_vars

SpecRepeat == InitWith(RepeatScripts) /\ [][Next]_vars

(***************************************************************************)
(* A caller that compiles a script and then compiles the preprocessed      *)
(* script, parse_raids(pre_parse(txt)): the outcome of the first call (the *)
(* script returned, or the exception) is kept in first.                    *)
(***************************************************************************)
Outcome ==
  [pc |-> pc, err |-> err,
   list_of_raids |-> IF pc = "done" THEN list_of_raids ELSE EmptyDict]

Recompile ==
  /\ pc \in {"done", "error"}
  /\ first = <<>>
  /\ first' = <<Outcome>>
  /\ txt' = pre_parse(txt)
  /\ pc' = "start"
  /\ err' = "None"
  /\ remain_txt' = <<>>
  /\ list_of_raids' = EmptyDict
  /\ raid_cnt' = 0
  /\ raid_info' = EmptyInfo
  /\ combact_actions' = EmptyDict
  /\ lines_left' = 0
  /\ combact_actions_c' = EmptyDict
  /\ turn' = 0
  /\ is_char_selected' = FALSE
  /\ combact_act' = <<>>
  /\ UNCHANGED <<raid_id, got>>

NextPre == Next \/ Recompile

SpecPre == InitWith(RawScripts) /\ [][NextPre]_vars

(***************************************************************************)
(* GenericV2.start: the loop over the returned raids, in id order, calls   *)
(* get_info on each.  get_info hands the raid's actions to the combat mode *)
(* and returns the url, the support summon and the repeat count.           *)
(* info.get(key) is the field as raid_info holds it: None (<<>>) or the    *)
(* value (<<v>>); a list holds such elements.  [info.get('summon')] is a   *)
(* list of one element, which is never None, so the test of line 27 never  *)
(* holds.  The settings are the run's defaults.                            *)
(***************************************************************************)
None == <<>>

Settings_summon_list == << << <<"b","a","h","a","m","u","t">> >> >>

Settings_item_amount_to_farm == <<3>>

get_info(raid) ==
  LET info            == raid.info
      url             == info.url
      support_summon  == <<info.summon>>
      support_summon2 == IF support_summon = None THEN Settings_summon_list
                         ELSE support_summon
      repeat          == info.repeat
      repeat2         == IF repeat = None THEN Settings_item_amount_to_farm
                         ELSE repeat
  IN  [load_actions |-> raid.combact_actions, url |-> url,
       support_summon |-> support_summon2, repeat |-> repeat2]

GetInfo ==
  /\ pc = "done"
  /\ raid_id < raid_cnt
  /\ raid_id' = raid_id + 1
  /\ got' = <<get_info(list_of_raids[raid_id + 1])>>
  /\ UNCHANGED <<first, txt, pc, err, remain_txt, parse_raids_vars,
                 combact_vars>>

NextRun == Next \/ GetInfo

SpecRun == Init /\ [][NextRun]_vars

\* The call as a step: parse_raids is called with a script, and runs to its
\* return or to an exception without waiting on anything, so a step that is
\* enabled is taken.
InitIdle ==
  /\ txt = <<>>
  /\ pc = "idle"
  /\ err = "None"
  /\ remain_txt = <<>>
  /\ list_of_raids = EmptyDict
  /\ raid_cnt = 0
  /\ raid_info = EmptyInfo
  /\ combact_actions = EmptyDict
  /\ lines_left = 0
  /\ combact_actions_c = EmptyDict
  /\ turn = 0
  /\ is_char_selected = FALSE
  /\ combact_act = <<>>
  /\ first = <<>>
  /\ raid_id = 0
  /\ got = <<>>

Call ==
  /\ pc = "idle"
  /\ txt' \in SeqsUpTo(RaidLines, MaxFairLines)
  /\ pc' = "start"
  /\ UNCHANGED <<caller_vars, err, remain_txt, parse_raids_vars,
                 combact_vars>>

NextFair == Call \/ Next

FairSpec == InitIdle /\ [][NextFair]_vars /\ WF_vars(NextFair)

(***************************************************************************)
(* The script as the language describes it: the top-level lines are the    *)
(* lines outside the turn blocks, a turn block running from a top-level    *)
(* line starting with "turn" to the first line "end".  A url line starts a *)
(* raid; the lines before the first url belong to the first raid.          *)
(***************************************************************************)
RECURSIVE TopLines(_, _)
TopLines(lines, inTurn) ==
  IF lines = <<>> THEN <<>>
  ELSE IF inTurn THEN TopLines(Tail(lines), Head(lines) # kw_end)
  ELSE <<Head(lines)>> \o TopLines(Tail(lines), StartsWith(Head(lines), kw_turn))

IsUrl(l) == StartsWith(l, kw_http)

Top == TopLines(pre_parse(txt), FALSE)

TopUrls == SelectSeq(Top, IsUrl)

UrlsUpTo(i) == Cardinality({j \in 1..i : IsUrl(Top[j])})

RaidOfLine(i) == IF UrlsUpTo(i) = 0 THEN 1 ELSE UrlsUpTo(i)

HeaderNumber(l) == DigitVal(FromEnd(l, 2))

(***************************************************************************)
(* C1: when parse_raids returns, the raid ids are exactly 1..N, every      *)
(* top-level url line has its raid, and the raid under id k holds the k-th *)
(* top-level url line, in input order.                                     *)
(***************************************************************************)
C1_RaidIdsFollowUrls ==
  pc = "done" =>
    /\ DOMAIN list_of_raids = 1..raid_cnt
    /\ raid_cnt >= 1
    /\ Len(TopUrls) <= raid_cnt
    /\ \A k \in 1..Len(TopUrls) : list_of_raids[k].info.url = <<TopUrls[k]>>

C1_Witness ==
  /\ pc = "done"
  /\ raid_cnt = 3
  /\ list_of_raids[1].info.url = <<lower(L_url_b)>>
  /\ list_of_raids[2].info.url = <<lower(L_url_a)>>
  /\ Len(Top) = 4

(***************************************************************************)
(* C2: when parse_raids returns, every turn block parsed at top level for  *)
(* a raid is present in that raid's turn mapping, under its turn number,   *)
(* whatever top-level lines follow or separate the turn blocks.            *)
(***************************************************************************)
C2_TurnBlocksKept ==
  pc = "done" =>
    \A i \in 1..Len(Top) :
      StartsWith(Top[i], kw_turn) =>
        HeaderNumber(Top[i]) \in
          DOMAIN list_of_raids[RaidOfLine(i)].combact_actions

(***************************************************************************)
(* C3: parse_raids terminates: every cycle of the main loop ends with      *)
(* fewer remaining lines than it started with, the call reaches its return *)
(* or an exception, and it returns with no line remaining.                 *)
(***************************************************************************)
C3_Terminates ==
  /\ [][pc = "combact" /\ pc' = "loop" => Len(remain_txt') < lines_left]_vars
  /\ [](pc = "done" => remain_txt = <<>>)
  /\ <>(pc \in {"done", "error"})

C3_Witness ==
  /\ pc = "done"
  /\ remain_txt = <<>>
  /\ pre_parse(txt) = <<lower(L_surmmon), lower(L_turn1)>>

(***************************************************************************)
(* The lines parse_raids has consumed so far, and whether, reading them as *)
(* the language describes, a character chain line of the turn block in     *)
(* progress has occurred since its header and since its last attack,       *)
(* enablefullauto or summon line.                                          *)
(***************************************************************************)
Consumed ==
  SubSeq(pre_parse(txt), 1, Len(pre_parse(txt)) - Len(remain_txt))

RECURSIVE ChainSince(_, _, _)
ChainSince(lines, inTurn, sel) ==
  IF lines = <<>> THEN inTurn /\ sel
  ELSE LET l == Head(lines) IN
    IF ~inTurn THEN ChainSince(Tail(lines), StartsWith(l, kw_turn), FALSE)
    ELSE IF l = kw_end THEN ChainSince(Tail(lines), FALSE, FALSE)
    ELSE IF StartsWith(l, kw_character) THEN ChainSince(Tail(lines), TRUE, TRUE)
    ELSE IF l = kw_attack \/ l = kw_enablefullauto \/ StartsWith(l, kw_summon)
    THEN ChainSince(Tail(lines), TRUE, FALSE)
    ELSE ChainSince(Tail(lines), TRUE, sel)

AtTurnLine == pc = "turn" /\ remain_txt # <<>>

Emitted(k) == combact_act'[Len(combact_act) + k]

(***************************************************************************)
(* C4: a turn-level line summon3 (written as in the grammar, or as         *)
(* summon(3)) that follows a character chain line of the same turn emits   *)
(* DeselectCharacter and then UseSummon{2}, and clears the selection.      *)
(***************************************************************************)
C4_SummonDeselects ==
  [][AtTurnLine /\ ChainSince(Consumed, FALSE, FALSE)
     /\ Head(remain_txt) \in {L_summon3, L_summon_p3}
     => /\ pc' = "turn"
        /\ Len(combact_act') = Len(combact_act) + 2
        /\ Emitted(1).key = kw_deselectchar
        /\ Emitted(2) = DictAction(kw_usesummon, Idx(2))
        /\ ~is_char_selected']_vars

(***************************************************************************)
(* C5: within a turn block a character chain line emits ChangeCharacter    *)
(* when a character chain line has occurred since the header and since the *)
(* last attack, enablefullauto or summon line of that turn, and            *)
(* SelectCharacter otherwise; the selection does not carry into the next   *)
(* turn block.                                                             *)
(***************************************************************************)
C5_SelectOrChange ==
  [][AtTurnLine /\ StartsWith(Head(remain_txt), kw_character) /\ pc' = "turn"
     => /\ Len(combact_act') > Len(combact_act)
        /\ Emitted(1).key = IF ChainSince(Consumed, FALSE, FALSE)
                            THEN kw_changechar ELSE kw_selectchar]_vars

C5_Witness ==
  /\ pc = "turn"
  /\ turn = 2
  /\ 1 \in DOMAIN combact_actions_c
  /\ Len(combact_actions_c[1]) = 1
  /\ combact_actions_c[1][1].key = kw_selectchar
  /\ Len(combact_act) = 1
  /\ combact_act[1].key = kw_selectchar

(***************************************************************************)
(* A chain line read back into its description (the character digit and    *)
(* the segments), and what the language says of a description: its first   *)
(* fault in reading order, if any, and the actions of a faultless chain.    *)
(* A target segment is armed when a useskill segment precedes it on the    *)
(* line with no target segment in between.                                 *)
(***************************************************************************)
RECURSIVE DescribeSegments(_)
DescribeSegments(rest) ==
  IF rest = <<>> THEN <<>>
  ELSE IF StartsWith(Tail(rest), kw_useskill)
  THEN <<[cmd |-> kw_useskill, n |-> DigitVal(rest[11])]>>
       \o DescribeSegments(SubSeq(rest, 13, Len(rest)))
  ELSE <<[cmd |-> kw_target, n |-> DigitVal(rest[9])]>>
       \o DescribeSegments(SubSeq(rest, 11, Len(rest)))

Describe(line) ==
  [n |-> DigitVal(line[10]), segs |-> DescribeSegments(SubSeq(line, 11, Len(line)))]

RECURSIVE SegmentFault(_, _)
SegmentFault(segs, armed) ==
  IF segs = <<>> THEN [kind |-> "None", n |-> 0]
  ELSE LET g == Head(segs) IN
    IF g.cmd = kw_useskill
    THEN IF g.n \notin 1..4 THEN [kind |-> "InvalidSkillIndex", n |-> g.n]
         ELSE SegmentFault(Tail(segs), TRUE)
    ELSE IF ~armed THEN [kind |-> "Unarmed", n |-> g.n]
    ELSE IF g.n \notin 1..6 THEN [kind |-> "InvalidTargetIndex", n |-> g.n]
    ELSE SegmentFault(Tail(segs), FALSE)

ChainFault(d) ==
  IF d.n \notin 1..4 THEN [kind |-> "InvalidCharacterIndex", n |-> d.n]
  ELSE SegmentFault(d.segs, FALSE)

ChainActions(d, selected) ==
  LET Act(key, n) == [kind |-> "dict", key |-> key, args |-> << <<"idx", n - 1>> >>]
  IN  <<Act(IF selected THEN kw_changechar ELSE kw_selectchar, d.n)>>
      \o [i \in 1..Len(d.segs) |-> Act(d.segs[i].cmd, d.segs[i].n)]

HasUnknownSegment(line) ==
  LET chains == split(line, ".")
  IN  \E i \in 2..Len(chains) :
        ~StartsWith(chains[i], kw_useskill) /\ ~StartsWith(chains[i], kw_target)

\* A chain of the grammar: the line reads back as its description.
IsChain(line) ==
  /\ StartsWith(line, kw_character)
  /\ Len(line) >= 10
  /\ ~HasUnknownSegment(line)
  /\ RenderChain(Describe(line)) = line

AtChainLine == AtTurnLine /\ IsChain(Head(remain_txt))

HeadFault == ChainFault(Describe(Head(remain_txt)))

(***************************************************************************)
(* C6: a chain character<N>.seg1.seg2... with N in 1..4 and no fault       *)
(* compiles to SelectCharacter{N-1} (ChangeCharacter{N-1} when a character *)
(* is selected) followed, in segment order, by UseSkill{k-1} for each      *)
(* useskill(k) and Target{t-1} for each target(t).                         *)
(***************************************************************************)
C6_ChainCompiles ==
  [][AtChainLine /\ HeadFault.kind = "None"
     => /\ pc' = "turn"
        /\ combact_act' = combact_act
             \o ChainActions(Describe(Head(remain_txt)),
                             ChainSince(Consumed, FALSE, FALSE))]_vars

C6_Witness ==
  /\ pc = "turn"
  /\ remain_txt = <<>>
  /\ Len(combact_act) = 4
  /\ SubSeq(combact_act, 2, 4) = <<DictAction(kw_selectchar, Idx(0)),
                                   DictAction(kw_useskill, Idx(1)),
                                   DictAction(kw_target, Idx(2))>>

(***************************************************************************)
(* C7: a chain whose first fault is a target segment that is not armed     *)
(* fails with TargetWithoutSkillArmed.                                     *)
(***************************************************************************)
C7_UnarmedTargetFails ==
  [][AtChainLine /\ HeadFault.kind = "Unarmed"
     => pc' = "error" /\ err' = "TargetWithoutSkillArmed"]_vars

(***************************************************************************)
(* C8: a chain whose first fault is a character digit outside 1..4, a      *)
(* useskill(k) with k outside 1..4 or an armed target(t) with t outside    *)
(* 1..6 fails with InvalidCharacterIndex, InvalidSkillIndex or             *)
(* InvalidTargetIndex, and the line adds no action.                        *)
(***************************************************************************)
C8_OutOfRangeRejected ==
  [][AtChainLine /\ HeadFault.kind \in {"InvalidCharacterIndex",
                                        "InvalidSkillIndex",
                                        "InvalidTargetIndex"}
     => /\ pc' = "error"
        /\ err' = HeadFault.kind
        /\ combact_act' = combact_act
        /\ list_of_raids' = list_of_raids]_vars

C8_Witness ==
  /\ pc = "error"
  /\ err = "InvalidTargetIndex"
  /\ Len(remain_txt) = 1
  /\ HeadFault = [kind |-> "InvalidTargetIndex", n |-> 7]
  /\ Len(Describe(remain_txt[1]).segs) = 3

(***************************************************************************)
(* C9: in every script parse_raids returns, the index of every             *)
(* SelectCharacter, ChangeCharacter and UseSkill action is in 0..3 and the *)
(* index of every Target and UseSummon action is in 0..5.                  *)
(***************************************************************************)
IndexRange(key) ==
  IF key \in {kw_selectchar, kw_changechar, kw_useskill} THEN 0..3
  ELSE IF key \in {kw_target, kw_usesummon} THEN 0..5
  ELSE Int

IndicesInRange(actions) ==
  \A i \in 1..Len(actions) :
    \A j \in 1..Len(actions[i].args) :
      actions[i].args[j][1] = "idx" =>
        actions[i].args[j][2] \in IndexRange(actions[i].key)

C9_IndicesInRange ==
  pc = "done" =>
    \A k \in DOMAIN list_of_raids :
      \A t \in DOMAIN list_of_raids[k].combact_actions :
        IndicesInRange(list_of_raids[k].combact_actions[t])

C9_Witness ==
  /\ pc = "done"
  /\ list_of_raids[1].combact_actions[1] =
       <<DictAction(kw_selectchar, Idx(1)), DictAction(kw_useskill, Idx(0)),
         DictAction(kw_changechar, Idx(3)), DictAction(kw_useskill, Idx(3)),
         DictAction(kw_target, Idx(5))>>

(***************************************************************************)
(* The raid each top-level line belongs to, under two readings of "the     *)
(* raid's lines": from its url to the next url (UrlOwners, where a script  *)
(* without url is one raid), and the same with the lines before the first  *)
(* url given to the first raid (Owners).                                   *)
(***************************************************************************)
RECURSIVE OwnersFrom(_, _)
OwnersFrom(lines, cnt) ==
  IF lines = <<>> THEN <<>>
  ELSE LET c == IF IsUrl(Head(lines)) THEN cnt + 1 ELSE cnt
       IN  <<c>> \o OwnersFrom(Tail(lines), c)

UrlOwners(top) ==
  LET own == OwnersFrom(top, 0)
  IN  [i \in 1..Len(top) |-> IF own[Len(top)] = 0 THEN 1 ELSE own[i]]

Owners(top) ==
  LET own == OwnersFrom(top, 0)
  IN  [i \in 1..Len(top) |-> IF own[i] = 0 THEN 1 ELSE own[i]]

HasFieldLine(top, own, k, prefix) ==
  \E i \in 1..Len(top) : own[i] = k /\ StartsWith(top[i], prefix)

TurnNumbersOf(top, own, k) ==
  {HeaderNumber(top[i]) :
     i \in {j \in 1..Len(top) : own[j] = k /\ StartsWith(top[j], kw_turn)}}

(***************************************************************************)
(* C10, as claimed: when parse_raids returns, a raid's info holds summon   *)
(* (resp. repeat) if and only if a summon: (resp. repeat:) line stands at  *)
(* top level between the raid's url and the next url.                      *)
(***************************************************************************)
C10_FieldsBetweenUrls ==
  pc = "done" =>
    LET top == Top
        own == UrlOwners(top)
    IN  \A k \in DOMAIN list_of_raids :
          /\ list_of_raids[k].info.summon # <<>>
               <=> HasFieldLine(top, own, k, kw_summon_colon)
          /\ list_of_raids[k].info.repeat # <<>>
               <=> HasFieldLine(top, own, k, kw_repeat_colon)

(***************************************************************************)
(* C10, amended: when parse_raids returns, a raid's info holds summon      *)
(* (resp. repeat) if and only if a summon: (resp. repeat:) line stands at  *)
(* top level among the raid's lines, which run from its url to the next    *)
(* url and, for the first raid, include the lines before the first url.    *)
(* A raid holds no turn of another raid, and a misspelled field line       *)
(* leaves the field absent.                                                *)
(***************************************************************************)
C10_FieldsOfOwnLines ==
  pc = "done" =>
    LET top == Top
        own == Owners(top)
    IN  \A k \in DOMAIN list_of_raids :
          /\ list_of_raids[k].info.summon # <<>>
               <=> HasFieldLine(top, own, k, kw_summon_colon)
          /\ list_of_raids[k].info.repeat # <<>>
               <=> HasFieldLine(top, own, k, kw_repeat_colon)
          /\ DOMAIN list_of_raids[k].combact_actions
               \subseteq TurnNumbersOf(top, own, k)

C10_Witness ==
  /\ pc = "done"
  /\ raid_cnt = 2
  /\ Top = <<lower(L_summon), lower(L_url_a), lower(L_surmmon), lower(L_url_b)>>
  /\ list_of_raids[1].info.summon # <<>>
  /\ list_of_raids[2].info = [url |-> <<lower(L_url_b)>>, summon |-> <<>>,
                              repeat |-> <<>>]

(***************************************************************************)
(* C11: inside a turn block, a line that is not a character chain, a wait  *)
(* line, a summon line, attack, enablefullauto or end is emitted as one    *)
(* Custom action carrying the normalized line unchanged, appended at its   *)
(* position in the action order, and the selection state is unchanged.     *)
(***************************************************************************)
IsOtherLine(line) ==
  /\ ~StartsWith(line, kw_character)
  /\ ~StartsWith(line, kw_wait)
  /\ ~StartsWith(line, kw_summon)
  /\ line \notin {kw_attack, kw_enablefullauto, kw_end}

C11_CustomPassesThrough ==
  [][AtTurnLine /\ IsOtherLine(Head(remain_txt))
     => /\ pc' = "turn"
        /\ combact_act' = Append(combact_act,
             [kind |-> "dict", key |-> Head(remain_txt), args |-> <<>>])
        /\ is_char_selected' = is_char_selected
        /\ remain_txt' = Tail(remain_txt)]_vars

C11_Witness ==
  /\ pc = "turn"
  /\ is_char_selected
  /\ Len(combact_act) = 3
  /\ combact_act[1].key = <<"q","u","i","c","k","s","u","m","m","o","n">>
  /\ combact_act[2].key = kw_selectchar
  /\ combact_act[3] = [kind |-> "dict", key |-> lower(L_turn2), args |-> <<>>]

(***************************************************************************)
(* The turn blocks of a script as the language describes them: a block     *)
(* runs from a top-level header to the first end line or to the end of the *)
(* input; its body is the lines in between.                                *)
(***************************************************************************)
RECURSIVE TurnBlocks(_, _)
TurnBlocks(lines, cur) ==
  IF lines = <<>> THEN (IF cur = <<>> THEN {} ELSE {cur[1]})
  ELSE LET l == Head(lines) IN
    IF cur = <<>>
    THEN IF StartsWith(l, kw_turn)
         THEN TurnBlocks(Tail(lines), <<[n |-> HeaderNumber(l), body |-> <<>>]>>)
         ELSE TurnBlocks(Tail(lines), <<>>)
    ELSE IF l = kw_end THEN {cur[1]} \cup TurnBlocks(Tail(lines), <<>>)
    ELSE TurnBlocks(Tail(lines), <<[cur[1] EXCEPT !.body = Append(@, l)]>>)

IsUnknownTop(line) ==
  /\ ~StartsWith(line, kw_http)
  /\ ~StartsWith(line, kw_summon_colon)
  /\ ~StartsWith(line, kw_repeat_colon)
  /\ ~StartsWith(line, kw_turn)

AtUnknownTop == remain_txt # <<>> /\ IsUnknownTop(Head(remain_txt))

(***************************************************************************)
(* C12: a top-level line that starts with none of http, summon:, repeat:   *)
(* and turn is dropped.  The cycle that meets it changes neither the raid  *)
(* info nor the stored raids, removes that line only and goes on with the  *)
(* next line; and in the script returned, the actions of every turn are    *)
(* the lines of the body of a turn block, so no top-level line is an       *)
(* action.                                                                 *)
(***************************************************************************)
C12_UnknownTopDropped ==
  /\ [][pc = "loop" /\ AtUnknownTop
        => /\ pc' = "combact"
           /\ remain_txt' = remain_txt
           /\ lines_left' = Len(remain_txt)
           /\ raid_info' = raid_info
           /\ list_of_raids' = list_of_raids]_vars
  /\ [][pc = "combact" /\ AtUnknownTop /\ lines_left = Len(remain_txt)
        => /\ pc' = "loop"
           /\ remain_txt' = Tail(remain_txt)
           /\ raid_info' = raid_info
           /\ list_of_raids' = list_of_raids]_vars
  /\ [](pc = "done" =>
          LET blocks == TurnBlocks(pre_parse(txt), <<>>)
          IN  \A k \in DOMAIN list_of_raids :
                \A t \in DOMAIN list_of_raids[k].combact_actions :
                  LET a == list_of_raids[k].combact_actions[t]
                  IN  \E b \in blocks :
                        /\ b.n = t
                        /\ Len(b.body) = Len(a)
                        /\ \A i \in 1..Len(a) : a[i].key = b.body[i])

C12_Witness ==
  /\ pc = "done"
  /\ pre_parse(txt) = <<lower(L_url_a), lower(L_surmmon), lower(L_turn1),
                        lstrip(lower(L_quicksummon))>>
  /\ list_of_raids[1].info = [url |-> <<lower(L_url_a)>>, summon |-> <<>>,
                              repeat |-> <<>>]
  /\ Len(list_of_raids[1].combact_actions[1]) = 1

(***************************************************************************)
(* C13: a script without url line (the empty script and a script of        *)
(* comments included) compiles to exactly one raid, under id 1, whose info *)
(* has no url; and at the end of the input the raid in progress is stored  *)
(* as the last entry, after the raids stored before, even when it is empty.*)
(***************************************************************************)
NoUrlLine ==
  \A i \in 1..Len(txt) : ~StartsWith(lower(strip(txt[i])), kw_http)

C13_LastRaidFinalized ==
  /\ [](pc = "done" /\ NoUrlLine
          => /\ DOMAIN list_of_raids = {1}
             /\ list_of_raids[1].info.url = <<>>)
  /\ [][pc = "loop" /\ remain_txt = <<>>
        => /\ pc' = "done"
           /\ DOMAIN list_of_raids' = 1..(raid_cnt + 1)
           /\ list_of_raids'[raid_cnt + 1] =
                [info |-> raid_info, combact_actions |-> combact_actions]
           /\ \A k \in DOMAIN list_of_raids :
                list_of_raids'[k] = list_of_raids[k]]_vars

C13_Witness ==
  /\ pc = "done"
  /\ txt = <<R_hash, R_slashes, R_empty>>
  /\ list_of_raids =
       DictSet(EmptyDict, 1, [info |-> EmptyInfo, combact_actions |-> EmptyDict])

(***************************************************************************)
(* The validation faults of a script as the language describes them: a     *)
(* repeat: line at top level whose last character is no digit; inside a    *)
(* turn block, a character chain with a fault and a summon line whose      *)
(* digit is outside 1..6.                                                  *)
(***************************************************************************)
TopFault(line) ==
  StartsWith(line, kw_repeat_colon) /\ ~IsDigit(line[Len(line)])

TurnFault(line) ==
  \/ IsChain(line) /\ ChainFault(Describe(line)).kind # "None"
  \/ \E d \in {0, 7, 8, 9} : line = RenderSummon(d)

RECURSIVE HasFault(_, _)
HasFault(lines, inTurn) ==
  IF lines = <<>> THEN FALSE
  ELSE LET l == Head(lines) IN
    IF inTurn
    THEN IF l = kw_end THEN HasFault(Tail(lines), FALSE)
         ELSE TurnFault(l) \/ HasFault(Tail(lines), TRUE)
    ELSE TopFault(l) \/ HasFault(Tail(lines), StartsWith(l, kw_turn))

(***************************************************************************)
(* C14: compilation is fail-fast.  A line with a validation fault stops    *)
(* parse_raids with an error at that line, and no script is returned for a *)
(* script holding a validation fault anywhere, raids concluded before the  *)
(* faulty line included.                                                   *)
(***************************************************************************)
C14_FailFast ==
  /\ [](pc = "done" => ~HasFault(pre_parse(txt), FALSE))
  /\ [][AtTurnLine /\ TurnFault(Head(remain_txt))
        => pc' = "error" /\ err' # "None"]_vars
  /\ [][pc = "loop" /\ remain_txt # <<>> /\ TopFault(Head(remain_txt))
        => pc' = "error" /\ err' # "None"]_vars

C14_Witness ==
  /\ pc = "error"
  /\ err = "InvalidCharacterIndex"
  /\ raid_cnt = 1
  /\ list_of_raids[1].info.url = <<lower(L_url_a)>>
  /\ raid_info.url = <<lower(L_url_b)>>

(***************************************************************************)
(* What the preprocessor is said to return: the raw lines that, trimmed,   *)
(* are not empty and start with neither # nor //, each trimmed and         *)
(* lower-cased, in their order.                                            *)
(***************************************************************************)
Survives(raw) ==
  LET t == strip(raw)
  IN  t # <<>> /\ ~StartsWith(t, <<"#">>) /\ ~StartsWith(t, <<"/", "/">>)

RECURSIVE Preprocessed(_)
Preprocessed(text) ==
  IF text = <<>> THEN <<>>
  ELSE (IF Survives(Head(text)) THEN <<lower(strip(Head(text)))>> ELSE <<>>)
       \o Preprocessed(Tail(text))

(***************************************************************************)
(* C15: the preprocessor drops a raw line if and only if, trimmed, it is   *)
(* empty or starts with # or //; every other line survives, lower-cased    *)
(* and trimmed, in its relative order (a line starting with one / that is  *)
(* not // survives).                                                       *)
(***************************************************************************)
C15_PreParseDrops ==
  [][pc = "start" => remain_txt' = Preprocessed(txt)]_vars

(***************************************************************************)
(* C16: preprocessing is idempotent, pre_parse(pre_parse(x)) =             *)
(* pre_parse(x), and parse_raids applied to pre_parse(x) ends as           *)
(* parse_raids applied to x does: with the same script, or with the same   *)
(* failure.                                                                *)
(***************************************************************************)
C16_PreParseIdempotent ==
  /\ [](pre_parse(pre_parse(txt)) = pre_parse(txt))
  /\ [](first # <<>> /\ pc \in {"done", "error"} => Outcome = first[1])

C16_Witness ==
  /\ first # <<>>
  /\ pc = "done"
  /\ txt = <<strip(lower(R_url)), lower(L_turn1), lstrip(lower(L_quicksummon))>>
  /\ first[1].list_of_raids = list_of_raids
  /\ Len(list_of_raids[1].combact_actions[1]) = 1

(***************************************************************************)
(* C17: for a compiled raid without summon, get_info returns the run's     *)
(* default summon list as the support summon, and for a raid without       *)
(* repeat the run's default repeat count; a field that is present is used  *)
(* as compiled.                                                            *)
(***************************************************************************)
C17_DefaultsSubstituted ==
  got # <<>> =>
    LET info == list_of_raids[raid_id].info IN
    /\ got[1].support_summon = IF info.summon = <<>> THEN Settings_summon_list
                               ELSE <<info.summon>>
    /\ got[1].repeat = IF info.repeat = <<>> THEN Settings_item_amount_to_farm
                       ELSE info.repeat

(***************************************************************************)
(* C18: a turn line equal to enablefullauto emits EnableFullAuto, preceded *)
(* by DeselectCharacter when a character is selected at that point, and    *)
(* leaves no character selected.                                           *)
(***************************************************************************)
C18_FullAutoDeselects ==
  [][AtTurnLine /\ Head(remain_txt) = kw_enablefullauto
     => /\ pc' = "turn"
        /\ ~is_char_selected'
        /\ IF ChainSince(Consumed, FALSE, FALSE)
           THEN /\ Len(combact_act') = Len(combact_act) + 2
                /\ Emitted(1).key = kw_deselectchar
                /\ Emitted(2).key = kw_enablefullauto
           ELSE /\ Len(combact_act') = Len(combact_act) + 1
                /\ Emitted(1).key = kw_enablefullauto]_vars

(***************************************************************************)
(* C19: a turn line summon<N>, the word followed directly by the digit,    *)
(* met with no character selected emits exactly UseSummon{N-1} when N is   *)
(* in 1..6 and stops the compilation with InvalidSummonIndex when N is a   *)
(* digit outside 1..6.                                                     *)
(***************************************************************************)
C19_SummonDigit ==
  [][/\ AtTurnLine
     /\ ~ChainSince(Consumed, FALSE, FALSE)
     /\ Len(Head(remain_txt)) = 7
     /\ StartsWith(Head(remain_txt), kw_summon)
     /\ IsDigit(Head(remain_txt)[7])
     => LET N == DigitVal(Head(remain_txt)[7]) IN
        IF N \in 1..6
        THEN /\ pc' = "turn"
             /\ combact_act' = Append(combact_act,
                  [kind |-> "dict", key |-> kw_usesummon,
                   args |-> << <<"idx", N - 1>> >>])
        ELSE pc' = "error" /\ err' = "InvalidSummonIndex"]_vars

(***************************************************************************)
(* C20: a character chain with a chained segment that is neither useskill  *)
(* nor target makes the compilation fail; the segment is never skipped.    *)
(***************************************************************************)
C20_UnknownSegmentFails ==
  [][/\ AtTurnLine
     /\ StartsWith(Head(remain_txt), kw_character)
     /\ HasUnknownSegment(Head(remain_txt))
     => pc' = "error" /\ combact_act' = combact_act]_vars

(***************************************************************************)
(* C21: a turn line equal to attack emits exactly one action, Attack, and  *)
(* clears the selection flag, so the next character chain line of the turn *)
(* emits SelectCharacter.                                                  *)
(***************************************************************************)
C21_AttackClearsSelection ==
  /\ [][AtTurnLine /\ Head(remain_txt) = kw_attack
        => /\ pc' = "turn"
           /\ Len(combact_act') = Len(combact_act) + 1
           /\ SubSeq(combact_act', 1, Len(combact_act)) = combact_act
           /\ Emitted(1).key = kw_attack
           /\ Emitted(1).args = <<>>
           /\ ~is_char_selected']_vars
  /\ [][/\ AtTurnLine
        /\ StartsWith(Head(remain_txt), kw_character)
        /\ pc' = "turn"
        /\ LET all == pre_parse(txt)
           IN  all[Len(all) - Len(remain_txt)] = kw_attack
        => Emitted(1).key = kw_selectchar]_vars

C21_Witness ==
  /\ pc = "turn"
  /\ Len(combact_act) = 3
  /\ combact_act[1].key = kw_selectchar
  /\ combact_act[2].key = kw_attack
  /\ combact_act[3].key = kw_selectchar
  /\ is_char_selected

(***************************************************************************)
(* In a turn's action sequence, the pairs (i, j) where an Attack action at *)
(* j follows a SelectCharacter or ChangeCharacter at i with no Attack,     *)
(* EnableFullAuto or UseSummon in between.                                 *)
(***************************************************************************)
AttackAfterSelect(a, i, j) ==
  /\ i < j
  /\ a[i].key \in {kw_selectchar, kw_changechar}
  /\ a[j].key = kw_attack
  /\ \A m \in (i + 1)..(j - 1) :
       a[m].key \notin {kw_attack, kw_enablefullauto, kw_usesummon}

(***************************************************************************)
(* C22, as claimed: in every compiled turn, whenever an Attack follows a   *)
(* SelectCharacter/ChangeCharacter with no Attack, EnableFullAuto or       *)
(* UseSummon in between, a DeselectCharacter stands between them.          *)
(***************************************************************************)
C22_DeselectBeforeAttack ==
  pc = "done" =>
    \A k \in DOMAIN list_of_raids :
      \A t \in DOMAIN list_of_raids[k].combact_actions :
        LET a == list_of_raids[k].combact_actions[t] IN
        \A i, j \in 1..Len(a) :
          AttackAfterSelect(a, i, j)
            => \E m \in (i + 1)..(j - 1) : a[m].key = kw_deselectchar

(***************************************************************************)
(* C22, amended: in every compiled turn, whenever an Attack follows a      *)
(* SelectCharacter/ChangeCharacter with no Attack, EnableFullAuto or       *)
(* UseSummon in between, no DeselectCharacter stands between them: an      *)
(* attack line reached while a character is selected clears the selection  *)
(* without emitting DeselectCharacter.                                     *)
(***************************************************************************)
C22_NoDeselectBeforeAttack ==
  pc = "done" =>
    \A k \in DOMAIN list_of_raids :
      \A t \in DOMAIN list_of_raids[k].combact_actions :
        LET a == list_of_raids[k].combact_actions[t] IN
        \A i, j \in 1..Len(a) :
          AttackAfterSelect(a, i, j)
            => \A m \in (i + 1)..(j - 1) : a[m].key # kw_deselectchar

C22_Witness ==
  /\ pc = "done"
  /\ 1 \in DOMAIN list_of_raids[1].combact_actions
  /\ LET a == list_of_raids[1].combact_actions[1]
     IN  /\ Len(a) = 4
         /\ a[1].key = kw_selectchar
         /\ a[2].key = kw_useskill
         /\ a[3].key = <<"q","u","i","c","k","s","u","m","m","o","n">>
         /\ a[4].key = kw_attack

(***************************************************************************)
(* The turn blocks of a script with their place in it: start is the        *)
(* position of the header, stop the position of the end line that closes   *)
(* the block, or of the last line of the script when there is none.  i is  *)
(* the number of lines before lines.                                       *)
(***************************************************************************)
RECURSIVE BlocksFrom(_, _, _)
BlocksFrom(lines, i, cur) ==
  IF lines = <<>>
  THEN (IF cur = <<>> THEN {} ELSE {[cur[1] EXCEPT !.stop = i]})
  ELSE LET l == Head(lines) IN
    IF cur = <<>>
    THEN IF StartsWith(l, kw_turn)
         THEN BlocksFrom(Tail(lines), i + 1,
                <<[n |-> HeaderNumber(l), start |-> i + 1, stop |-> 0,
                   body |-> <<>>]>>)
         ELSE BlocksFrom(Tail(lines), i + 1, <<>>)
    ELSE IF l = kw_end
    THEN {[cur[1] EXCEPT !.stop = i + 1]}
         \cup BlocksFrom(Tail(lines), i + 1, <<>>)
    ELSE BlocksFrom(Tail(lines), i + 1,
           <<[cur[1] EXCEPT !.body = Append(@, l)]>>)

(***************************************************************************)
(* C23: a turn block consumes the lines up to and including the first end  *)
(* line, or up to the end of the input.  When the block returns, its       *)
(* actions are those of the lines between the header and that end line,    *)
(* one per line here, the end line gives no action, and the lines after it *)
(* are handed back in their order.  Until then one line is consumed at a   *)
(* time, and none of them is end.                                          *)
(***************************************************************************)
C23_BlockStopsAtEnd ==
  /\ [][pc = "turn" /\ pc' = "combact"
        => LET all == pre_parse(txt)
               p   == Len(all) - Len(remain_txt')
           IN  \E b \in BlocksFrom(all, 0, <<>>) :
                 /\ b.stop = p
                 /\ b.n = turn
                 /\ remain_txt' = SubSeq(all, p + 1, Len(all))
                 /\ Len(combact_actions_c'[turn]) = Len(b.body)
                 /\ \A i \in 1..Len(b.body) :
                      combact_actions_c'[turn][i].key = b.body[i]]_vars
  /\ [][pc = "turn" /\ pc' = "turn"
        => Head(remain_txt) # kw_end /\ remain_txt' = Tail(remain_txt)]_vars

C23_Witness ==
  /\ pc = "combact"
  /\ pre_parse(txt) = <<lower(L_turn1), lstrip(lower(L_quicksummon)),
                        lower(L_end), lower(L_url_a)>>
  /\ remain_txt = <<lower(L_url_a)>>
  /\ Len(combact_actions_c[1]) = 1

(***************************************************************************)
(* The run of turn blocks that ends at position p: the block that stops at *)
(* p and the blocks before it that follow each other directly.  And the    *)
(* action a line of a block gives, where each line gives one.              *)
(***************************************************************************)
RECURSIVE RunEndingAt(_, _)
RunEndingAt(blocks, p) ==
  LET last == {b \in blocks : b.stop = p}
  IN  IF last = {} THEN {}
      ELSE last \cup RunEndingAt(blocks, (CHOOSE b \in last : TRUE).start - 1)

ActionOfLine(a, l) ==
  IF StartsWith(l, kw_wait) THEN a.key = kw_wait
  ELSE IF StartsWith(l, kw_character)
  THEN a.key \in {kw_selectchar, kw_changechar}
  ELSE a.key = l

\* The number written in a header "turn <digits>:", in decimal.
RECURSIVE Decimal(_)
Decimal(ds) ==
  IF ds = <<>> THEN 0
  ELSE 10 * Decimal(SubSeq(ds, 1, Len(ds) - 1)) + DigitVal(ds[Len(ds)])

WrittenNumber(header) == Decimal(SubSeq(header, 6, Len(header) - 1))

(***************************************************************************)
(* C24: turn blocks that follow each other directly are parsed in one run  *)
(* of _parse_combact, and when the run returns each block is in the raid's *)
(* turn mapping under the turn number written in its header, with its own  *)
(* actions.                                                                *)
(***************************************************************************)
C24_BackToBackBlocks ==
  [][pc = "combact" /\ pc' = "loop" /\ lines_left > Len(remain_txt)
     => LET all == pre_parse(txt)
            run == RunEndingAt(BlocksFrom(all, 0, <<>>),
                               Len(all) - Len(remain_txt))
            N(b) == WrittenNumber(all[b.start])
        IN  Cardinality(run) >= 2 =>
            \A b \in run :
              (\A c \in run : N(c) = N(b) => c.start <= b.start)
              => /\ N(b) \in DOMAIN combact_actions'
                 /\ Len(combact_actions'[N(b)]) = Len(b.body)
                 /\ \A i \in 1..Len(b.body) :
                      ActionOfLine(combact_actions'[N(b)][i], b.body[i])]_vars

(***************************************************************************)
(* C25: the key under which a turn block is stored is the number written   *)
(* in its header "turn N:", for every positive N (N >= 10 included), and   *)
(* is a positive integer: the header sets the block's number to the        *)
(* written one, and the block is stored under that number.                 *)
(***************************************************************************)
C25_KeyIsWrittenNumber ==
  /\ [][pc = "combact" /\ pc' = "turn"
        => /\ turn' = WrittenNumber(remain_txt[1])
           /\ turn' > 0]_vars
  /\ [][pc = "turn" /\ pc' = "combact"
        => /\ turn \in DOMAIN combact_actions_c'
           /\ combact_actions_c'[turn] = combact_act]_vars

\* The lines left once a leading url line and then a leading summon line
\* are taken: where one cycle of parse_raids looks for a repeat line.
AfterFields(lines) ==
  LET a == IF lines # <<>> /\ StartsWith(lines[1], kw_http)
           THEN Tail(lines) ELSE lines
  IN  IF a # <<>> /\ StartsWith(a[1], kw_summon_colon) THEN Tail(a) ELSE a

RepeatAhead ==
  LET a == AfterFields(remain_txt)
  IN  /\ pc = "loop"
      /\ a # <<>>
      /\ StartsWith(a[1], kw_repeat_colon)
      /\ \E i \in 1..10 : Digits[i] = FromEnd(a[1], 1)

(***************************************************************************)
(* C26: a top-level line starting with "repeat:" is consumed and sets the  *)
(* in-progress raid's info.repeat to the integer value of the line's last  *)
(* character, its trailing digit ("repeat:1" gives 1, "repeat:12" gives    *)
(* 2); no other line sets info.repeat.                                     *)
(***************************************************************************)
C26_RepeatIsTrailingDigit ==
  /\ [][RepeatAhead
        => LET a == AfterFields(remain_txt)
           IN  /\ pc' = "combact"
               /\ raid_info'.repeat = <<DigitVal(FromEnd(a[1], 1))>>
               /\ remain_txt' = Tail(a)]_vars
  /\ [][raid_info'.repeat # raid_info.repeat /\ raid_info'.repeat # <<>>
        => RepeatAhead]_vars

C26_Witness ==
  /\ pc = "done"
  /\ raid_cnt = 1
  /\ list_of_raids[1].info.repeat = <<2>>
  /\ list_of_raids[1].info.url # <<>>

(***************************************************************************)
(* C27: for a target(t) segment the armed check comes before the range     *)
(* check: a chain whose first fault is a target reached with no skill      *)
(* armed and t outside 1..6 fails with TargetWithoutSkillArmed, and a      *)
(* chain fails with InvalidTargetIndex only when its first fault is an     *)
(* armed target.                                                           *)
(***************************************************************************)
C27_ArmedCheckFirst ==
  /\ [][AtChainLine /\ HeadFault.kind = "Unarmed" /\ HeadFault.n \notin 1..6
        => pc' = "error" /\ err' = "TargetWithoutSkillArmed"]_vars
  /\ [][AtChainLine /\ err' = "InvalidTargetIndex"
        => HeadFault.kind = "InvalidTargetIndex"]_vars

\* A line wait(<digits>), and the digits.
WaitDigits(l) == SubSeq(l, 6, Len(l) - 1)

IsWaitLine(l) ==
  /\ Len(l) >= 7
  /\ SubSeq(l, 1, 5) = kw_wait \o <<"(">>
  /\ l[Len(l)] = ")"
  /\ \A i \in 6..(Len(l) - 1) : IsDigit(l[i])

(***************************************************************************)
(* C28: a turn-level line wait(<int>) adds exactly one Wait action whose   *)
(* time is the integer written between the parentheses, with one digit or  *)
(* several, and leaves the character selection as it was.                  *)
(***************************************************************************)
C28_WaitEmitsSeconds ==
  [][AtTurnLine /\ IsWaitLine(Head(remain_txt))
     => /\ pc' = "turn"
        /\ combact_act' =
             Append(combact_act,
                    [kind |-> "dict", key |-> kw_wait,
                     args |-> << <<"time",
                                   Decimal(WaitDigits(Head(remain_txt)))>> >>])
        /\ is_char_selected' = is_char_selected
        /\ remain_txt' = Tail(remain_txt)]_vars

C28_Witness ==
  /\ pc = "turn"
  /\ is_char_selected
  /\ Len(combact_act) = 2
  /\ combact_act[1].key = kw_selectchar
  /\ combact_act[2] = [kind |-> "dict", key |-> kw_wait,
                       args |-> << <<"time", 12>> >>]

(***************************************************************************)
(* C29: every action of every turn of a returned script has one shape, a   *)
(* mapping with the action tag as its only key and the mapping of the      *)
(* arguments as its value; no action is emitted in another container.      *)
(***************************************************************************)
C29_OneActionShape ==
  pc = "done"
  => \A r \in DOMAIN list_of_raids :
       \A t \in DOMAIN list_of_raids[r].combact_actions :
         \A i \in 1..Len(list_of_raids[r].combact_actions[t]) :
           list_of_raids[r].combact_actions[t][i].kind = "dict"

\* A line that is a raid boundary, a raid field or a turn header at top
\* level.
IsFieldLine(l) ==
  \/ StartsWith(l, kw_http)
  \/ StartsWith(l, kw_repeat_colon)
  \/ StartsWith(l, kw_turn)

(***************************************************************************)
(* C30: raid boundaries and raid fields are recognised at top level only.  *)
(* A line starting with http, repeat: or turn between a turn header and    *)
(* its end is taken by the block as a Custom action: it starts no raid and *)
(* no turn and sets no info field.  When parse_raids returns, the number   *)
(* of raids is the number of url lines outside turn blocks, or 1 when      *)
(* there is none.                                                          *)
(***************************************************************************)
C30_FieldsOnlyAtTopLevel ==
  /\ [][AtTurnLine /\ IsFieldLine(Head(remain_txt))
        => /\ pc' = "turn"
           /\ combact_act' = Append(combact_act,
                [kind |-> "dict", key |-> Head(remain_txt), args |-> <<>>])
           /\ remain_txt' = Tail(remain_txt)
           /\ UNCHANGED <<raid_info, raid_cnt, list_of_raids, turn,
                          combact_actions, combact_actions_c>>]_vars
  /\ [](pc = "done"
        => LET urls == TopUrls
           IN  /\ raid_cnt = (IF urls = <<>> THEN 1 ELSE Len(urls))
               /\ DOMAIN list_of_raids = 1..raid_cnt)

C30_Witness ==
  /\ pc = "done"
  /\ raid_cnt = 1
  /\ list_of_raids[1].info.url # <<>>
  /\ list_of_raids[1].info.repeat = <<>>
  /\ DOMAIN list_of_raids[1].combact_actions = {1}
  /\ Len(list_of_raids[1].combact_actions[1]) = 2
  /\ list_of_raids[1].combact_actions[1][1].key = lower(L_url_b)
  /\ list_of_raids[1].combact_actions[1][2].key = lower(L_repeat)

=============================================================================
